---- MODULE Spec2Model ----
(***************************************************************************)
(* LOCO RAG Engine: the semantic chunker, the engine's ingest and query    *)
(* (backend/core/processor.py and backend/core/engine.py as listed in      *)
(* docs/product_documentation.md), the chat page that calls /query         *)
(* through the API client (frontend/src/lib/api.ts, app/page.tsx) and the  *)
(* admin page's configuration updates (app/admin/page.tsx).                *)
(*                                                                         *)
(* The specifications share the variables:                                 *)
(*   SpecChunk   semantic_chunking applied to bounded texts, embeddings    *)
(*               and thresholds;                                           *)
(*   Spec        concurrent engine.ingest / engine.query requests against  *)
(*               one LanceDB table;                                        *)
(*   SpecFair    the same under fair scheduling of the ingest requests;    *)
(*   SpecUpload  documents ingested through POST /ingest (text, chunker,   *)
(*               engine.ingest) with concurrent queries;                   *)
(*   SpecConfig  concurrent POST /admin/config updates;                    *)
(*   SpecChat    the chat page's handleSend sending questions to           *)
(*               engine.query through POST /query.                         *)
(***************************************************************************)
EXTENDS Integers, Sequences, FiniteSets, TLC

\* ------------------------------------------------------------------------
\* Bounds of the model (not program constants)
\* ------------------------------------------------------------------------
MaxTextLen == 6

\* number of ingest requests and of query requests in one run
MaxIngest == 2

MaxQuery == 1

\* number of questions sent from the chat page in one run
MaxSend == 2

\* chunks per ingest request
MaxChunks == 2

\* number of /admin/config update requests in one run
MaxUpdate == 2

\* clicks on the chat page's New Chat button
MaxNewChat == 2

\* ------------------------------------------------------------------------
\* Generic helpers
\* ------------------------------------------------------------------------
Min(a, b) == IF a < b THEN a ELSE b

\* all sequences over S of length 0..n
SeqsUpTo(S, n) == UNION {[1..k -> S] : k \in 0..n}

RECURSIVE Flatten(_)
Flatten(ss) == IF ss = <<>> THEN <<>> ELSE Head(ss) \o Flatten(Tail(ss))

\* ------------------------------------------------------------------------
\* Text: a Python str is a sequence of one-character strings
\* ------------------------------------------------------------------------
Chars == {"a", ".", " "}

\* str.split('. '): leftmost, non-overlapping occurrences of the separator;
\* always returns at least one element ('' for the empty string)
RECURSIVE SplitFrom(_, _)
SplitFrom(s, i) ==
    IF i + 1 > Len(s) THEN <<s>>
    ELSE IF s[i] = "." /\ s[i + 1] = " "
         THEN <<SubSeq(s, 1, i - 1)>> \o SplitFrom(SubSeq(s, i + 2, Len(s)), 1)
         ELSE SplitFrom(s, i + 1)

Split(s) == SplitFrom(s, 1)

\* ". ".join(units)
RECURSIVE Join(_)
Join(units) ==
    IF units = <<>> THEN <<>>
    ELSE IF Len(units) = 1 THEN units[1]
    ELSE units[1] \o <<".", " ">> \o Join(Tail(units))

\* ------------------------------------------------------------------------
\* Embeddings and cosine similarity
\* ------------------------------------------------------------------------
\* the vectors the embedding model may return (2-dimensional stand-ins)
EmbVecs == {<<1, 0>>, <<0, 1>>, <<3, 4>>, <<0, 0>>, <<-1, 0>>}

Dot(a, b) == a[1] * b[1] + a[2] * b[2]

\* thresholds are in hundredths: 70 is 0.70
Thresholds == {0, 60, 70, 75, 100}

DefaultThreshold == 70

\* cosine similarity <= t/100
SimBelowLe(a, b, t) ==
    IF Dot(a, a) = 0 \/ Dot(b, b) = 0 THEN 0 <= t
    ELSE IF Dot(a, b) < 0 THEN TRUE
    ELSE Dot(a, b) * Dot(a, b) * 10000 <= t * t * Dot(a, a) * Dot(b, b)

\* the comparison turned round: cosine similarity > t/100
SimAbove(a, b, t) ==
    IF Dot(a, a) = 0 \/ Dot(b, b) = 0 THEN 0 > t
    ELSE IF Dot(a, b) < 0 THEN FALSE
    ELSE Dot(a, b) * Dot(a, b) * 10000 > t * t * Dot(a, a) * Dot(b, b)

\* cosine_similarity([a], [b])[0][0] < t/100, in exact arithmetic.
\* sklearn normalises each vector, leaving an all-zero vector as zeros, so
\* the similarity with a zero vector is 0.
SimBelow(a, b, t) ==
    IF Dot(a, a) = 0 \/ Dot(b, b) = 0 THEN 0 < t
    ELSE IF Dot(a, b) < 0 THEN TRUE
    ELSE Dot(a, b) * Dot(a, b) * 10000 < t * t * Dot(a, a) * Dot(b, b)

\* ------------------------------------------------------------------------
\* semantic_chunking
\* ------------------------------------------------------------------------
\* the loop with "<=" in place of "<"
RECURSIVE ChunkLoopLe(_, _, _, _, _, _)
ChunkLoopLe(sentences, embeddings, t, i, chunks, current_chunk) ==
    IF i > Len(sentences) THEN Append(chunks, current_chunk)
    ELSE IF SimBelowLe(embeddings[i - 1], embeddings[i], t)
         THEN ChunkLoopLe(sentences, embeddings, t, i + 1,
                          Append(chunks, current_chunk), <<sentences[i]>>)
         ELSE ChunkLoopLe(sentences, embeddings, t, i + 1,
                          chunks, Append(current_chunk, sentences[i]))

\* the loop without the final chunks.append after it
RECURSIVE ChunkLoopNoFinal(_, _, _, _, _, _)
ChunkLoopNoFinal(sentences, embeddings, t, i, chunks, current_chunk) ==
    IF i > Len(sentences) THEN chunks
    ELSE IF SimBelow(embeddings[i - 1], embeddings[i], t)
         THEN ChunkLoopNoFinal(sentences, embeddings, t, i + 1,
                               Append(chunks, current_chunk), <<sentences[i]>>)
         ELSE ChunkLoopNoFinal(sentences, embeddings, t, i + 1,
                               chunks, Append(current_chunk, sentences[i]))

\* the for loop of semantic_chunking from index i on: chunks emitted so far,
\* current_chunk the open buffer; returns the groups of sentences
RECURSIVE ChunkLoop(_, _, _, _, _, _)
ChunkLoop(sentences, embeddings, t, i, chunks, current_chunk) ==
    IF i > Len(sentences) THEN Append(chunks, current_chunk)
    ELSE IF SimBelow(embeddings[i - 1], embeddings[i], t)
         THEN ChunkLoop(sentences, embeddings, t, i + 1,
                        Append(chunks, current_chunk), <<sentences[i]>>)
         ELSE ChunkLoop(sentences, embeddings, t, i + 1,
                        chunks, Append(current_chunk, sentences[i]))

\* the loop entered at the third sentence: range(2, len(sentences))
ChunkGroupsFromThird(sentences, embeddings, t) ==
    ChunkLoop(sentences, embeddings, t, 3, <<>>, <<sentences[1]>>)

\* the groups of sentences, before they are joined
ChunkGroups(sentences, embeddings, t) ==
    ChunkLoop(sentences, embeddings, t, 2, <<>>, <<sentences[1]>>)

\* semantic_chunking(text, threshold) given the embeddings of its sentences
semantic_chunking(text, embeddings, t) ==
    LET groups == ChunkGroups(Split(text), embeddings, t)
    IN  [k \in 1..Len(groups) |-> Join(groups[k])]


\* ------------------------------------------------------------------------
\* LocoEngine: embeddings, rows of the doc_store table, vector search
\* ------------------------------------------------------------------------
Ing == 1..MaxIngest

Qry == 1..MaxQuery

Upd == 1..MaxUpdate

\* chunk texts handed to engine.ingest, file names, questions, top_k values
ChunkTexts == {<<"a">>, <<"b">>}

\* the chunk lists passed to engine.ingest: n chunks alternating between the
\* two texts
ChunkList(n) == [i \in 1..n |-> IF i % 2 = 1 THEN <<"a">> ELSE <<"b">>]

ChunkLists == {ChunkList(n) : n \in 0..MaxChunks}

Files == {"f1", "f2"}

Questions == {<<"a">>, <<"c">>, <<" ">>}

TopKs == {1, 3}

DefaultTopK == 3

SnippetLen == 150

\* get_embedding(text) when the embedding service answers: the model is a
\* fixed function of the text
EmbedOf(text) ==
    IF text = <<"a">> THEN <<1, 0>>
    ELSE IF text = <<"b">> THEN <<0, 1>>
    ELSE IF text = <<"c">> THEN <<1, 1>>
    ELSE <<0, 0>>

\* embeddings = [engine.get_embedding(s) for s in sentences]
SentenceEmbeddings(text) ==
    [i \in 1..Len(Split(text)) |-> EmbedOf(Split(text)[i])]

\* the texts extracted from the uploaded files: '', 'a', 'a. b', 'a. c'
UploadTexts ==
    {<<>>, <<"a">>, <<"a", ".", " ", "b">>, <<"a", ".", " ", "c">>}

\* the record engine.ingest builds for one chunk; ing (the request that
\* built it) is history, not a column of the table
IngestRecord(chunk, filename, p) ==
    [vector |-> EmbedOf(chunk), text |-> chunk, source |-> filename,
     page |-> 0, ing |-> p]

\* LanceDB's _distance of a row: squared L2 distance to the query vector
Distance(q, v) ==
    (q[1] - v[1]) * (q[1] - v[1]) + (q[2] - v[2]) * (q[2] - v[2])

\* row i precedes row j in the vector ranking; rows at the same distance
\* are ranked in table order
Closer(tbl, q, i, j) ==
    \/ Distance(q, tbl[i].vector) < Distance(q, tbl[j].vector)
    \/ /\ Distance(q, tbl[i].vector) = Distance(q, tbl[j].vector)
       /\ i < j

\* 1-based rank of row i in the vector ranking of the whole table
VectorRank(tbl, q, i) ==
    1 + Cardinality({j \in 1..Len(tbl) : Closer(tbl, q, j, i)})

\* the row at rank r
RowAtRank(tbl, q, r) ==
    CHOOSE i \in 1..Len(tbl) : VectorRank(tbl, q, i) = r

\* one element of table.search(q).to_list(): the row plus its _distance;
\* id is the row's position in the table (its identity)
Hit(tbl, q, i) ==
    [id |-> i, text |-> tbl[i].text, source |-> tbl[i].source,
     _distance |-> Distance(q, tbl[i].vector)]

\* the search without .limit(top_k)
SearchNoLimit(tbl, q, k) ==
    [r \in 1..Len(tbl) |-> Hit(tbl, q, RowAtRank(tbl, q, r))]

\* table.search(query_vec).limit(top_k).to_list()
Search(tbl, q, k) ==
    [r \in 1..Min(k, Len(tbl)) |-> Hit(tbl, q, RowAtRank(tbl, q, r))]

\* r['text'][:150]
Snippet(text) == SubSeq(text, 1, Min(SnippetLen, Len(text)))

\* the reference built for one result
Reference(r) ==
    [source |-> r.source, snippet |-> Snippet(r.text), score |-> r._distance]

\* the references with the first result left out
ReferencesSkipFirst(results) ==
    [k \in 1..(Len(results) - 1) |-> Reference(results[k + 1])]

\* the "references" list of the returned dict
References(results) ==
    [k \in 1..Len(results) |-> Reference(results[k])]

\* ------------------------------------------------------------------------
\* The chat page (LocoChat) and the API client
\* ------------------------------------------------------------------------
\* what the user may have typed when handleSend runs
ChatInputs == {<<"a">>, <<" ", "c">>, <<" ">>, <<>>}

IsSpace(c) == c = " "

\* String.prototype.trim()
RECURSIVE TrimLeft(_)
TrimLeft(s) ==
    IF s # <<>> /\ IsSpace(Head(s)) THEN TrimLeft(Tail(s)) ELSE s

RECURSIVE TrimRight(_)
TrimRight(s) ==
    IF s # <<>> /\ IsSpace(s[Len(s)])
    THEN TrimRight(SubSeq(s, 1, Len(s) - 1)) ELSE s

Trim(s) == TrimRight(TrimLeft(s))

TitleLen == 50

\* userMessage.slice(0, 50) + (userMessage.length > 50 ? '...' : '')
TitleOf(msg) ==
    SubSeq(msg, 1, Min(TitleLen, Len(msg)))
        \o (IF Len(msg) > TitleLen THEN <<".", ".", ".">> ELSE <<>>)

NoSession == 0

PageTitleLen == 40

\* userMessage.slice(0, 40) + (userMessage.length > 40 ? '...' : '')
PageTitleOf(msg) ==
    SubSeq(msg, 1, Min(PageTitleLen, Len(msg)))
        \o (IF Len(msg) > PageTitleLen THEN <<".", ".", ".">> ELSE <<>>)

NoRequest == 0

NoResponse == [answer |-> "none", references |-> <<>>]

\* ------------------------------------------------------------------------
\* The admin page: tokens, passwords, uploads
\* ------------------------------------------------------------------------
MaxUpload == 2

Uploads == 1..MaxUpload

NoToken == "null"

\* access tokens the backend issues and accepts
IssuedTokens == {"t1", "t2"}

\* what localStorage 'loco_token' may hold when the page is opened: nothing,
\* an expired token, a token still accepted
StoredTokens == {NoToken, "old", "t1"}

Passwords == {"right", "wrong"}

NoResp == "none"

NoProgress == 0

\* ------------------------------------------------------------------------
\* The engine configuration (GET / POST /admin/config)
\* ------------------------------------------------------------------------
\* temperature is in tenths (7 is 0.7), chunk_similarity_threshold in
\* hundredths
ConfigFields == {"temperature", "top_k", "chunk_similarity_threshold"}

\* the configuration before any update
InitConfig ==
    [temperature |-> 7, top_k |-> DefaultTopK,
     chunk_similarity_threshold |-> DefaultThreshold]

\* the allowed range of each field
FieldRange(f) ==
    IF f = "temperature" THEN 0..20
    ELSE IF f = "top_k" THEN 1..10
    ELSE 0..100

\* every field of the body is within its range
ValidUpdates(body) == \A f \in DOMAIN body : body[f] \in FieldRange(f)

\* the record with the fields of the body written over it
ApplyUpdates(cfg, body) ==
    [f \in DOMAIN cfg |-> IF f \in DOMAIN body THEN body[f] ELSE cfg[f]]

\* null (the page has no configuration, a request has no response body)
NoConfig == [f \in {} |-> 0]

\* the values the two sliders of the settings tab can be moved to
SliderUpdates ==
    {[temperature |-> v] : v \in {0, 8, 20}}
        \cup {[top_k |-> v] : v \in {1, 5, 10}}

\* the bodies other clients of locoApi.updateConfig may send
ApiUpdates ==
    {[temperature |-> v] : v \in {-1, 21}}
        \cup {[top_k |-> v] : v \in {0, 11}}
        \cup {[chunk_similarity_threshold |-> v] : v \in {-1, 75, 101}}
        \cup {[temperature |-> v, top_k |-> w] : v \in {9, 21}, w \in {4, 11}}

VARIABLES
    \* semantic_chunking run
    ckPc, ckText, ckThreshold, ckEmb, ckChunks,
    \* the LanceDB table doc_store
    tableExists, rows,
    \* engine.ingest requests
    iPc, iText, iChunks, iFile, iData,
    \* engine.query requests
    qPc, qQuestion, qTopK, qResults, qResponse, qOrigin, qGen,
    \* calls made to ollama.generate
    genCalls,
    \* chat page state
    sessions, activeSessionId, isLoading, chPending, toast, nextId,
    \* the engine configuration, the /admin/config requests and the admin
    \* page's copy of the configuration
    config, uPc, uUpdates, uBody, uResp, uOrigin, pgConfig, pgToast

ckVars == <<ckPc, ckText, ckThreshold, ckEmb, ckChunks>>

storeVars == <<tableExists, rows>>

ingVars == <<iPc, iText, iChunks, iFile, iData>>

qryVars == <<qPc, qQuestion, qTopK, qResults, qResponse, qOrigin, qGen>>

chatVars == <<sessions, activeSessionId, isLoading, chPending, toast, nextId>>

cfgVars == <<config, uPc, uUpdates, uBody, uResp, uOrigin, pgConfig, pgToast>>

VARIABLES authToken, localToken, isAuthenticated, needsSetup, adminIsLoading,
          adError, adPc, adPassword, adResp, adHeader, adminSetup,
          uploadProgress, upPc, upInterval, upTimeout

\* the admin page (app/admin/page.tsx) and the API client's token
authVars == <<authToken, localToken, isAuthenticated, needsSetup,
              adminIsLoading, adError, adPc, adPassword, adResp, adHeader,
              adminSetup>>

upVars == <<uploadProgress, upPc, upInterval, upTimeout>>

admVars == <<authVars, upVars>>

vars == <<ckVars, storeVars, ingVars, qryVars, genCalls, chatVars, cfgVars,
          admVars>>

\* no semantic_chunking run in progress
ChunkIdle ==
    /\ ckPc = "idle"
    /\ ckText = <<>>
    /\ ckThreshold = DefaultThreshold
    /\ ckEmb = <<>>
    /\ ckChunks = <<>>

\* no engine.ingest request has been made
IngestIdle ==
    /\ iPc = [p \in Ing |-> "idle"]
    /\ iText = [p \in Ing |-> <<>>]
    /\ iChunks = [p \in Ing |-> <<>>]
    /\ iFile = [p \in Ing |-> "f1"]
    /\ iData = [p \in Ing |-> <<>>]

\* no engine.query request has been made; Q names the requests of the run
QueryIdle(Q) ==
    /\ qPc = [q \in Q |-> "idle"]
    /\ qQuestion = [q \in Q |-> <<>>]
    /\ qTopK = [q \in Q |-> DefaultTopK]
    /\ qResults = [q \in Q |-> <<>>]
    /\ qResponse = [q \in Q |-> NoResponse]
    /\ qOrigin = [q \in Q |-> "api"]
    /\ qGen = [q \in Q |-> FALSE]
    /\ genCalls = 0

\* LocoEngine.__init__ on a fresh data directory: connected, no table
EngineInit ==
    /\ tableExists = FALSE
    /\ rows = <<>>
    /\ IngestIdle
    /\ QueryIdle(Qry)

\* LocoChat's useState initial values
ChatInit ==
    /\ sessions = <<>>
    /\ activeSessionId = NoSession
    /\ isLoading = FALSE
    /\ chPending = [q |-> NoRequest, session |-> NoSession]
    /\ toast = "none"
    /\ nextId = 1

\* no upload started
UploadIdle ==
    /\ uploadProgress = NoProgress
    /\ upPc = [u \in Uploads |-> "idle"]
    /\ upInterval = [u \in Uploads |-> FALSE]
    /\ upTimeout = [u \in Uploads |-> FALSE]

\* the admin page after a login: token stored, dashboard shown
AdminDashboard ==
    /\ authToken = "t1"
    /\ localToken = "t1"
    /\ isAuthenticated = TRUE
    /\ needsSetup = FALSE
    /\ adminIsLoading = FALSE
    /\ adError = "none"
    /\ adPc = "idle"
    /\ adPassword = "none"
    /\ adResp = NoResp
    /\ adHeader = "t1"
    /\ adminSetup = TRUE
    /\ UploadIdle

\* the admin page at mount: useState initial values, checkStatus called by
\* the effect and waiting for /health; the browser may hold a token of an
\* earlier visit
AdminMount ==
    /\ authToken = NoToken
    /\ localToken \in StoredTokens
    /\ isAuthenticated = FALSE
    /\ needsSetup = FALSE
    /\ adminIsLoading = TRUE
    /\ adError = "none"
    /\ adPc = "health"
    /\ adPassword = "none"
    /\ adResp = NoResp
    /\ adHeader = NoToken
    /\ adminSetup \in BOOLEAN
    /\ UploadIdle

\* the configuration as loaded at startup, no update requested, and the
\* admin page's config state after the login has fetched it
ConfigInit ==
    /\ config = InitConfig
    /\ uPc = [u \in Upd |-> "idle"]
    /\ uUpdates = [u \in Upd |-> NoConfig]
    /\ uBody = [u \in Upd |-> NoConfig]
    /\ uResp = [u \in Upd |-> NoConfig]
    /\ uOrigin = [u \in Upd |-> "page"]
    /\ pgConfig = InitConfig
    /\ pgToast = "none"
    /\ AdminDashboard

InitChunk ==
    /\ ckPc = "start"
    /\ ckText \in SeqsUpTo(Chars, MaxTextLen)
    /\ ckThreshold \in Thresholds
    /\ ckEmb = <<>>
    /\ ckChunks = <<>>
    /\ EngineInit
    /\ ChatInit
    /\ ConfigInit

\* one run of semantic_chunking: one get_embedding call per sentence, then
\* the loop
Chunking ==
    /\ ckPc = "start"
    /\ \E e \in [1..Len(Split(ckText)) -> EmbVecs] :
          /\ ckEmb' = e
          /\ ckChunks' = semantic_chunking(ckText, e, ckThreshold)
    /\ ckPc' = "done"
    /\ UNCHANGED <<ckText, ckThreshold>>
    /\ UNCHANGED <<storeVars, ingVars, qryVars, genCalls, chatVars, cfgVars,
                   admVars>>

NextChunk == Chunking

SpecChunk == InitChunk /\ [][NextChunk]_vars

\* ------------------------------------------------------------------------
\* engine.ingest(chunks, metadata), one step per collaborator call
\* ------------------------------------------------------------------------
\* a caller invokes engine.ingest
IngestStart(p) ==
    /\ iPc[p] = "idle"
    /\ \A o \in Ing : o < p => iPc[o] # "idle"
    /\ \E chunks \in ChunkLists, f \in Files :
          /\ iChunks' = [iChunks EXCEPT ![p] = chunks]
          /\ iFile' = [iFile EXCEPT ![p] = f]
    /\ iData' = [iData EXCEPT ![p] = <<>>]
    /\ iPc' = [iPc EXCEPT ![p] = "embed"]
    /\ UNCHANGED <<ckVars, cfgVars, admVars, storeVars, iText, qryVars, genCalls,
                   chatVars>>

\* the loop iteration with the record also written to the table at once
IngestEmbedEager(p) ==
    /\ iPc[p] = "embed"
    /\ Len(iData[p]) < Len(iChunks[p])
    /\ LET rec == IngestRecord(iChunks[p][Len(iData[p]) + 1], iFile[p], p)
       IN  /\ iData' = [iData EXCEPT ![p] = Append(iData[p], rec)]
           /\ rows' = Append(rows, rec)
           /\ tableExists' = TRUE
    /\ UNCHANGED <<ckVars, cfgVars, admVars, iPc, iText, iChunks, iFile, qryVars,
                   genCalls, chatVars>>

\* one iteration of the for loop: get_embedding(chunk) answers and the
\* record is appended to the local list data
IngestEmbed(p) ==
    /\ iPc[p] = "embed"
    /\ Len(iData[p]) < Len(iChunks[p])
    /\ LET rec == IngestRecord(iChunks[p][Len(iData[p]) + 1], iFile[p], p)
       IN  iData' = [iData EXCEPT ![p] = Append(iData[p], rec)]
    /\ UNCHANGED <<ckVars, cfgVars, admVars, storeVars, iPc, iText, iChunks, iFile,
                   qryVars, genCalls, chatVars>>

\* get_embedding raises: ingest is left by the exception
IngestEmbedFail(p) ==
    /\ iPc[p] = "embed"
    /\ Len(iData[p]) < Len(iChunks[p])
    /\ iPc' = [iPc EXCEPT ![p] = "failed"]
    /\ UNCHANGED <<ckVars, cfgVars, admVars, storeVars, iText, iChunks, iFile, iData,
                   qryVars, genCalls, chatVars>>

\* the same behind a table lock that a request failing in its write never
\* releases
IngestCheckLocked(p) ==
    /\ iPc[p] = "embed"
    /\ Len(iData[p]) = Len(iChunks[p])
    /\ \A o \in Ing \ {p} :
          /\ iPc[o] \notin {"create", "add"}
          /\ ~(iPc[o] = "failed" /\ Len(iData[o]) = Len(iChunks[o]))
    /\ iPc' = [iPc EXCEPT ![p] = IF tableExists THEN "add" ELSE "create"]
    /\ UNCHANGED <<ckVars, cfgVars, admVars, storeVars, iText, iChunks, iFile, iData,
                   qryVars, genCalls, chatVars>>

\* the loop is over: if self.table_name not in self.db.table_names()
IngestCheck(p) ==
    /\ iPc[p] = "embed"
    /\ Len(iData[p]) = Len(iChunks[p])
    /\ iPc' = [iPc EXCEPT ![p] = IF tableExists THEN "add" ELSE "create"]
    /\ UNCHANGED <<ckVars, cfgVars, admVars, storeVars, iText, iChunks, iFile, iData,
                   qryVars, genCalls, chatVars>>

\* create_table(name, data=data, mode="overwrite"): an existing table is
\* replaced
IngestCreateOverwrite(p) ==
    /\ iPc[p] = "create"
    /\ tableExists' = TRUE
    /\ rows' = iData[p]
    /\ iPc' = [iPc EXCEPT ![p] = "done"]
    /\ UNCHANGED <<ckVars, cfgVars, admVars, iText, iChunks, iFile, iData, qryVars,
                   genCalls, chatVars>>

\* self.db.create_table(name, data=data); raises when another request
\* created the table in the meantime
IngestCreate(p) ==
    /\ iPc[p] = "create"
    /\ IF tableExists
       THEN /\ iPc' = [iPc EXCEPT ![p] = "failed"]
            /\ UNCHANGED storeVars
       ELSE /\ tableExists' = TRUE
            /\ rows' = iData[p]
            /\ iPc' = [iPc EXCEPT ![p] = "done"]
    /\ UNCHANGED <<ckVars, cfgVars, admVars, iText, iChunks, iFile, iData, qryVars,
                   genCalls, chatVars>>

\* table.add called once per record instead of once for the list
IngestAddEach(p) ==
    /\ iPc[p] = "add"
    /\ LET n == Len(SelectSeq(rows, LAMBDA r : r.ing = p))
       IN  IF n < Len(iData[p])
           THEN /\ rows' = Append(rows, iData[p][n + 1])
                /\ iPc' = [iPc EXCEPT ![p] =
                              IF n + 1 = Len(iData[p]) THEN "done" ELSE "add"]
           ELSE /\ rows' = rows
                /\ iPc' = [iPc EXCEPT ![p] = "done"]
    /\ UNCHANGED <<ckVars, cfgVars, admVars, tableExists, iText, iChunks, iFile, iData,
                   qryVars, genCalls, chatVars>>

\* table = open_table(name); table.add(data): one append of all records
IngestAdd(p) ==
    /\ iPc[p] = "add"
    /\ rows' = rows \o iData[p]
    /\ iPc' = [iPc EXCEPT ![p] = "done"]
    /\ UNCHANGED <<ckVars, cfgVars, admVars, tableExists, iText, iChunks, iFile, iData,
                   qryVars, genCalls, chatVars>>

\* the store write raises (store unavailable): nothing is written
IngestWriteFail(p) ==
    /\ iPc[p] \in {"create", "add"}
    /\ iPc' = [iPc EXCEPT ![p] = "failed"]
    /\ UNCHANGED <<ckVars, cfgVars, admVars, storeVars, iText, iChunks, iFile, iData,
                   qryVars, genCalls, chatVars>>

\* ------------------------------------------------------------------------
\* Document ingestion through POST /ingest: the extracted text is chunked
\* by semantic_chunking(text, engine) and the chunks go to engine.ingest
\* ------------------------------------------------------------------------
\* the backend receives an uploaded file and its text is extracted
UploadStart(p) ==
    /\ iPc[p] = "idle"
    /\ \A o \in Ing : o < p => iPc[o] # "idle"
    /\ \E text \in UploadTexts, f \in Files :
          /\ iText' = [iText EXCEPT ![p] = text]
          /\ iFile' = [iFile EXCEPT ![p] = f]
    /\ iPc' = [iPc EXCEPT ![p] = "chunk"]
    /\ UNCHANGED <<ckVars, cfgVars, admVars, storeVars, iChunks, iData, qryVars,
                   genCalls, chatVars>>

\* semantic_chunking: engine.get_embedding answers for every sentence and
\* the chunks are handed to engine.ingest
UploadChunk(p) ==
    /\ iPc[p] = "chunk"
    /\ iChunks' = [iChunks EXCEPT ![p] =
                      semantic_chunking(iText[p], SentenceEmbeddings(iText[p]),
                                        DefaultThreshold)]
    /\ iData' = [iData EXCEPT ![p] = <<>>]
    /\ iPc' = [iPc EXCEPT ![p] = "embed"]
    /\ UNCHANGED <<ckVars, cfgVars, admVars, storeVars, iText, iFile, qryVars,
                   genCalls, chatVars>>

\* engine.get_embedding raises inside semantic_chunking
UploadChunkFail(p) ==
    /\ iPc[p] = "chunk"
    /\ iPc' = [iPc EXCEPT ![p] = "failed"]
    /\ UNCHANGED <<ckVars, cfgVars, admVars, storeVars, iText, iChunks, iFile, iData,
                   qryVars, genCalls, chatVars>>

\* ------------------------------------------------------------------------
\* engine.query(user_input, top_k), one step per collaborator call
\* ------------------------------------------------------------------------
\* a request other than the chat page's calls POST /query
QueryStart(q) ==
    /\ qPc[q] = "idle"
    /\ \A o \in DOMAIN qPc : o < q => qPc[o] # "idle"
    /\ \E question \in Questions, k \in TopKs :
          /\ qQuestion' = [qQuestion EXCEPT ![q] = question]
          /\ qTopK' = [qTopK EXCEPT ![q] = k]
    /\ qOrigin' = [qOrigin EXCEPT ![q] = "api"]
    /\ qPc' = [qPc EXCEPT ![q] = "open"]
    /\ UNCHANGED <<ckVars, cfgVars, admVars, storeVars, ingVars, qResults, qResponse,
                   qGen, genCalls, chatVars>>

\* the table opened with a fallback that creates it when it is missing
QueryOpenOrCreate(q) ==
    /\ qPc[q] = "open"
    /\ qPc' = [qPc EXCEPT ![q] = "search"]
    /\ tableExists' = TRUE
    /\ rows' = rows
    /\ UNCHANGED <<ckVars, cfgVars, admVars, ingVars, qQuestion, qTopK, qResults,
                   qResponse, qOrigin, qGen, genCalls, chatVars>>

\* table = self.db.open_table(self.table_name): raises when the table was
\* never created
QueryOpen(q) ==
    /\ qPc[q] = "open"
    /\ qPc' = [qPc EXCEPT ![q] = IF tableExists THEN "search" ELSE "error"]
    /\ UNCHANGED <<ckVars, cfgVars, admVars, storeVars, ingVars, qQuestion, qTopK,
                   qResults, qResponse, qOrigin, qGen, genCalls, chatVars>>

\* the lines of query up to the search, without the limit
RetrieveNoLimit(tbl, user_input, top_k) ==
    SearchNoLimit(tbl, EmbedOf(user_input), top_k)

\* query_vec = self.get_embedding(user_input)
\* results = table.search(query_vec).limit(top_k).to_list()
Retrieve(tbl, user_input, top_k) ==
    Search(tbl, EmbedOf(user_input), top_k)

\* get_embedding answers and the table is searched
QuerySearch(q) ==
    /\ qPc[q] = "search"
    /\ qResults' = [qResults EXCEPT ![q] =
                       Retrieve(rows, qQuestion[q], qTopK[q])]
    /\ qPc' = [qPc EXCEPT ![q] = "generate"]
    /\ UNCHANGED <<ckVars, cfgVars, admVars, storeVars, ingVars, qQuestion, qTopK,
                   qResponse, qOrigin, qGen, genCalls, chatVars>>

\* get_embedding raises: query is left by the exception
QueryEmbedFail(q) ==
    /\ qPc[q] = "search"
    /\ qPc' = [qPc EXCEPT ![q] = "error"]
    /\ UNCHANGED <<ckVars, cfgVars, admVars, storeVars, ingVars, qQuestion, qTopK,
                   qResults, qResponse, qOrigin, qGen, genCalls, chatVars>>

\* the same with the references taken from a second search of the table
QueryGenerateFresh(q) ==
    /\ qPc[q] = "generate"
    /\ genCalls' = genCalls + 1
    /\ qGen' = [qGen EXCEPT ![q] = TRUE]
    /\ qResponse' = [qResponse EXCEPT ![q] =
                        [answer |-> "llm",
                         references |->
                             References(Retrieve(rows, qQuestion[q],
                                                 qTopK[q]))]]
    /\ qPc' = [qPc EXCEPT ![q] = "done"]
    /\ UNCHANGED <<ckVars, cfgVars, admVars, storeVars, ingVars, qQuestion, qTopK,
                   qResults, qOrigin, chatVars>>

\* response = ollama.generate(...) answers; the dict is returned
QueryGenerate(q) ==
    /\ qPc[q] = "generate"
    /\ genCalls' = genCalls + 1
    /\ qGen' = [qGen EXCEPT ![q] = TRUE]
    /\ qResponse' = [qResponse EXCEPT ![q] =
                        [answer |-> "llm",
                         references |-> References(qResults[q])]]
    /\ qPc' = [qPc EXCEPT ![q] = "done"]
    /\ UNCHANGED <<ckVars, cfgVars, admVars, storeVars, ingVars, qQuestion, qTopK,
                   qResults, qOrigin, chatVars>>

\* ollama.generate raises: query is left by the exception
QueryGenerateFail(q) ==
    /\ qPc[q] = "generate"
    /\ genCalls' = genCalls + 1
    /\ qGen' = [qGen EXCEPT ![q] = TRUE]
    /\ qPc' = [qPc EXCEPT ![q] = "error"]
    /\ UNCHANGED <<ckVars, cfgVars, admVars, storeVars, ingVars, qQuestion, qTopK,
                   qResults, qResponse, qOrigin, chatVars>>

\* ------------------------------------------------------------------------
\* POST /query as seen by the API client, and LocoChat.handleSend
\* ------------------------------------------------------------------------
\* res.ok of the /query response: the endpoint answers 2xx exactly when
\* engine.query returned
HttpOk(q) == qPc[q] = "done"

\* the session list with message m appended to the session with this id
AppendMessage(ss, id, m) ==
    [k \in 1..Len(ss) |->
        IF ss[k].id = id
        THEN [ss[k] EXCEPT !.messages = Append(ss[k].messages, m)]
        ELSE ss[k]]

\* the same, setting the title when m is the session's first message
AppendUserMessage(ss, id, m) ==
    [k \in 1..Len(ss) |->
        IF ss[k].id = id
        THEN [ss[k] EXCEPT
                 !.title = IF Len(ss[k].messages) = 0
                           THEN TitleOf(m.content) ELSE ss[k].title,
                 !.messages = Append(ss[k].messages, m)]
        ELSE ss[k]]

NewSession(id) == [id |-> id, title |-> "New Chat", messages |-> <<>>]

\* handleSend up to the await of locoApi.ask(userMessage)
HandleSend(q) ==
    /\ qPc[q] = "idle"
    /\ \A o \in DOMAIN qPc : o < q => qPc[o] # "idle"
    /\ \E input \in ChatInputs :
          /\ ~(Trim(input) = <<>> \/ isLoading)
          /\ LET currentSessionId ==
                     IF activeSessionId = NoSession THEN nextId
                     ELSE activeSessionId
                 withSession ==
                     IF activeSessionId = NoSession
                     THEN <<NewSession(nextId)>> \o sessions
                     ELSE sessions
                 newUserMessage ==
                     [role |-> "user", content |-> Trim(input),
                      references |-> <<>>]
             IN  /\ sessions' = AppendUserMessage(withSession,
                                    currentSessionId, newUserMessage)
                 /\ activeSessionId' = currentSessionId
                 /\ nextId' = IF activeSessionId = NoSession
                              THEN nextId + 1 ELSE nextId
                 /\ chPending' = [q |-> q, session |-> currentSessionId]
                 /\ qQuestion' = [qQuestion EXCEPT ![q] = Trim(input)]
    /\ isLoading' = TRUE
    /\ toast' = "loading"
    /\ qTopK' = [qTopK EXCEPT ![q] = DefaultTopK]
    /\ qOrigin' = [qOrigin EXCEPT ![q] = "chat"]
    /\ qPc' = [qPc EXCEPT ![q] = "open"]
    /\ UNCHANGED <<ckVars, cfgVars, admVars, storeVars, ingVars, qResults, qResponse,
                   qGen, genCalls>>

\* the rest of handleSend appending the answer to the session that is
\* active when the response arrives
HandleSendResumeToActive ==
    /\ chPending.q # NoRequest
    /\ qPc[chPending.q] \in {"done", "error"}
    /\ IF HttpOk(chPending.q)
       THEN /\ sessions' = AppendMessage(sessions, activeSessionId,
                              [role |-> "assistant",
                               content |-> qResponse[chPending.q].answer,
                               references |->
                                   qResponse[chPending.q].references])
            /\ toast' = "success"
       ELSE /\ toast' = "error"
            /\ UNCHANGED sessions
    /\ isLoading' = FALSE
    /\ chPending' = [q |-> NoRequest, session |-> NoSession]
    /\ UNCHANGED <<ckVars, cfgVars, admVars, storeVars, ingVars, qryVars, genCalls,
                   activeSessionId, nextId>>

\* the rest of handleSend with an ask that returns res.json() whatever
\* res.ok is
HandleSendResumeNoOkCheck ==
    /\ chPending.q # NoRequest
    /\ qPc[chPending.q] \in {"done", "error"}
    /\ sessions' = AppendMessage(sessions, chPending.session,
                      [role |-> "assistant",
                       content |-> qResponse[chPending.q].answer,
                       references |-> qResponse[chPending.q].references])
    /\ toast' = "success"
    /\ isLoading' = FALSE
    /\ chPending' = [q |-> NoRequest, session |-> NoSession]
    /\ UNCHANGED <<ckVars, cfgVars, admVars, storeVars, ingVars, qryVars, genCalls,
                   activeSessionId, nextId>>

\* the rest of handleSend once the /query response has arrived: ask
\* returns the body when res.ok and throws otherwise; try / catch / finally
HandleSendResume ==
    /\ chPending.q # NoRequest
    /\ qPc[chPending.q] \in {"done", "error"}
    /\ IF HttpOk(chPending.q)
       THEN /\ sessions' = AppendMessage(sessions, chPending.session,
                              [role |-> "assistant",
                               content |-> qResponse[chPending.q].answer,
                               references |->
                                   qResponse[chPending.q].references])
            /\ toast' = "success"
       ELSE /\ toast' = "error"
            /\ UNCHANGED sessions
    /\ isLoading' = FALSE
    /\ chPending' = [q |-> NoRequest, session |-> NoSession]
    /\ UNCHANGED <<ckVars, cfgVars, admVars, storeVars, ingVars, qryVars, genCalls,
                   activeSessionId, nextId>>

\* ------------------------------------------------------------------------
\* The chat page of the frontend (app/page.tsx): sessions and handleSend
\* ------------------------------------------------------------------------
\* the ids of the sessions in the list
SessionIds(ss) == {ss[k].id : k \in 1..Len(ss)}

\* New Chat button: a new empty session at the head of the list, active
createNewSession ==
    /\ nextId <= MaxNewChat
    /\ sessions' = <<NewSession(nextId)>> \o sessions
    /\ activeSessionId' = nextId
    /\ nextId' = nextId + 1
    /\ toast' = "info"
    /\ UNCHANGED <<ckVars, cfgVars, admVars, storeVars, ingVars, qryVars, genCalls,
                   isLoading, chPending>>

\* sessions.find(s => s.id !== sessionId)?.id || null
FirstOtherId(ss, sessionId) ==
    LET others == SelectSeq(ss, LAMBDA x : x.id # sessionId)
    IN  IF others = <<>> THEN NoSession ELSE others[1].id

\* deleteSession that leaves activeSessionId alone
deleteSessionKeepActive(sessionId) ==
    /\ sessionId \in SessionIds(sessions)
    /\ sessions' = SelectSeq(sessions, LAMBDA x : x.id # sessionId)
    /\ toast' = "success"
    /\ UNCHANGED <<ckVars, cfgVars, admVars, storeVars, ingVars, qryVars, genCalls,
                   activeSessionId, isLoading, chPending, nextId>>

\* the delete button of a session row
deleteSession(sessionId) ==
    /\ sessionId \in SessionIds(sessions)
    /\ sessions' = SelectSeq(sessions, LAMBDA x : x.id # sessionId)
    /\ activeSessionId' =
          IF activeSessionId = sessionId
          THEN IF Len(sessions) > 1
               THEN FirstOtherId(sessions, sessionId) ELSE NoSession
          ELSE activeSessionId
    /\ toast' = "success"
    /\ UNCHANGED <<ckVars, cfgVars, admVars, storeVars, ingVars, qryVars, genCalls,
                   isLoading, chPending, nextId>>

\* a click on a session row: setActiveSessionId(session.id)
SelectSession(sessionId) ==
    /\ sessionId \in SessionIds(sessions)
    /\ activeSessionId # sessionId
    /\ activeSessionId' = sessionId
    /\ UNCHANGED <<ckVars, cfgVars, admVars, storeVars, ingVars, qryVars, genCalls,
                   sessions, isLoading, chPending, toast, nextId>>

\* the page's setSessions updater for the user's message (title of 40)
AppendUserMessagePage(ss, id, m) ==
    [k \in 1..Len(ss) |->
        IF ss[k].id = id
        THEN [ss[k] EXCEPT
                 !.title = IF Len(ss[k].messages) = 0
                           THEN PageTitleOf(m.content) ELSE ss[k].title,
                 !.messages = Append(ss[k].messages, m)]
        ELSE ss[k]]

\* handleSend of app/page.tsx up to the await of locoApi.ask: the session
\* is created by createNewSession(), and both setSessions updaters compare
\* with the activeSessionId of the render that handled the event
HandleSendPageBody(q, loadingSeen) ==
    /\ qPc[q] = "idle"
    /\ \A o \in DOMAIN qPc : o < q => qPc[o] # "idle"
    /\ \E input \in ChatInputs :
          /\ ~(Trim(input) = <<>> \/ loadingSeen)
          /\ LET withSession ==
                     IF activeSessionId = NoSession
                     THEN <<NewSession(nextId)>> \o sessions
                     ELSE sessions
                 newUserMessage ==
                     [role |-> "user", content |-> Trim(input),
                      references |-> <<>>]
             IN  /\ sessions' = AppendUserMessagePage(withSession,
                                    activeSessionId, newUserMessage)
                 /\ activeSessionId' = IF activeSessionId = NoSession
                                       THEN nextId ELSE activeSessionId
                 /\ nextId' = IF activeSessionId = NoSession
                              THEN nextId + 1 ELSE nextId
                 /\ chPending' = [q |-> q, session |-> activeSessionId]
                 /\ qQuestion' = [qQuestion EXCEPT ![q] = Trim(input)]
    /\ isLoading' = TRUE
    /\ toast' = "loading"
    /\ qTopK' = [qTopK EXCEPT ![q] = DefaultTopK]
    /\ qOrigin' = [qOrigin EXCEPT ![q] = "chat"]
    /\ qPc' = [qPc EXCEPT ![q] = "open"]
    /\ UNCHANGED <<ckVars, cfgVars, admVars, storeVars, ingVars, qResults, qResponse,
                   qGen, genCalls>>

\* handleSend without the isLoading test of its first line
HandleSendPageNoLoadingTest(q) == HandleSendPageBody(q, FALSE)

HandleSendPage(q) == HandleSendPageBody(q, isLoading)

\* ------------------------------------------------------------------------
\* POST /admin/config: the settings sliders of the admin page, other
\* clients, and the backend's update_config
\* ------------------------------------------------------------------------
notCfgVars ==
    <<ckVars, storeVars, ingVars, qryVars, genCalls, chatVars, admVars>>

\* the update sent as the page's whole configuration with the change
\* written over it
HandleConfigUpdateWhole(u) ==
    /\ uPc[u] = "idle"
    /\ \A o \in Upd : o < u => uPc[o] # "idle"
    /\ \E updates \in SliderUpdates :
          /\ uUpdates' = [uUpdates EXCEPT ![u] = updates]
          /\ uBody' = [uBody EXCEPT ![u] =
                          IF pgConfig = NoConfig THEN updates
                          ELSE ApplyUpdates(pgConfig, updates)]
    /\ uOrigin' = [uOrigin EXCEPT ![u] = "page"]
    /\ uPc' = [uPc EXCEPT ![u] = "sent"]
    /\ UNCHANGED <<notCfgVars, config, uResp, pgConfig, pgToast>>

\* a slider's onValueChange: handleConfigUpdate({field: value}) up to the
\* await of locoApi.updateConfig(updates), which posts the updates as the
\* request body
HandleConfigUpdate(u) ==
    /\ uPc[u] = "idle"
    /\ \A o \in Upd : o < u => uPc[o] # "idle"
    /\ \E updates \in SliderUpdates :
          /\ uUpdates' = [uUpdates EXCEPT ![u] = updates]
          /\ uBody' = [uBody EXCEPT ![u] = updates]
    /\ uOrigin' = [uOrigin EXCEPT ![u] = "page"]
    /\ uPc' = [uPc EXCEPT ![u] = "sent"]
    /\ UNCHANGED <<notCfgVars, config, uResp, pgConfig, pgToast>>

\* another client posts a body to /admin/config
ApiUpdateConfig(u) ==
    /\ uPc[u] = "idle"
    /\ \A o \in Upd : o < u => uPc[o] # "idle"
    /\ \E body \in ApiUpdates :
          /\ uUpdates' = [uUpdates EXCEPT ![u] = body]
          /\ uBody' = [uBody EXCEPT ![u] = body]
    /\ uOrigin' = [uOrigin EXCEPT ![u] = "api"]
    /\ uPc' = [uPc EXCEPT ![u] = "sent"]
    /\ UNCHANGED <<notCfgVars, config, uResp, pgConfig, pgToast>>

\* the backend with out-of-range values clamped into the range
update_config_clamping(u) ==
    /\ uPc[u] = "sent"
    /\ LET clamped ==
               [f \in DOMAIN uBody[u] |->
                   IF uBody[u][f] \in FieldRange(f) THEN uBody[u][f]
                   ELSE IF uBody[u][f] < 0 THEN 0
                   ELSE IF f = "temperature" THEN 20
                   ELSE IF f = "top_k" THEN IF uBody[u][f] < 1 THEN 1 ELSE 10
                   ELSE 100]
       IN  /\ config' = ApplyUpdates(config, clamped)
           /\ uResp' = [uResp EXCEPT ![u] = ApplyUpdates(config, clamped)]
           /\ uPc' = [uPc EXCEPT ![u] = "ok"]
    /\ UNCHANGED <<notCfgVars, uUpdates, uBody, uOrigin, pgConfig, pgToast>>

\* the backend handles the request: the fields are validated against their
\* ranges; a valid body is written over the shared record in one step and
\* the new configuration is returned, an invalid one is rejected
update_config(u) ==
    /\ uPc[u] = "sent"
    /\ IF ValidUpdates(uBody[u])
       THEN /\ config' = ApplyUpdates(config, uBody[u])
            /\ uResp' = [uResp EXCEPT ![u] = ApplyUpdates(config, uBody[u])]
            /\ uPc' = [uPc EXCEPT ![u] = "ok"]
       ELSE /\ uPc' = [uPc EXCEPT ![u] = "rejected"]
            /\ UNCHANGED <<config, uResp>>
    /\ UNCHANGED <<notCfgVars, uUpdates, uBody, uOrigin, pgConfig, pgToast>>

\* the rest of handleConfigUpdate once the response has arrived:
\* updateConfig returns the configuration when res.ok and throws otherwise
HandleConfigUpdateResume(u) ==
    /\ uOrigin[u] = "page"
    /\ uPc[u] \in {"ok", "rejected"}
    /\ IF uPc[u] = "ok"
       THEN /\ pgConfig' = uResp[u]
            /\ pgToast' = "success"
       ELSE /\ pgToast' = "error"
            /\ UNCHANGED pgConfig
    /\ uPc' = [uPc EXCEPT ![u] = "shown"]
    /\ UNCHANGED <<notCfgVars, config, uUpdates, uBody, uResp, uOrigin>>

\* ------------------------------------------------------------------------
\* Spec: the engine under concurrent ingest and query requests
\* ------------------------------------------------------------------------
Init ==
    /\ ChunkIdle
    /\ EngineInit
    /\ ChatInit
    /\ ConfigInit

Next ==
    \/ \E p \in Ing :
          \/ IngestStart(p)
          \/ IngestEmbed(p)
          \/ IngestEmbedFail(p)
          \/ IngestCheck(p)
          \/ IngestCreate(p)
          \/ IngestAdd(p)
          \/ IngestWriteFail(p)
    \/ \E q \in Qry :
          \/ QueryStart(q)
          \/ QueryOpen(q)
          \/ QuerySearch(q)
          \/ QueryEmbedFail(q)
          \/ QueryGenerate(q)
          \/ QueryGenerateFail(q)

Spec == Init /\ [][Next]_vars

\* a started engine.ingest call goes on: its request handler is scheduled
\* and every collaborator call it makes returns or raises
IngestStep(p) ==
    \/ IngestEmbed(p)
    \/ IngestEmbedFail(p)
    \/ IngestCheck(p)
    \/ IngestCreate(p)
    \/ IngestAdd(p)
    \/ IngestWriteFail(p)

\* the requests of the liveness runs: an empty or a full chunk list under
\* one file name, one question with the default top_k
IngestStartFair(p) ==
    /\ IngestStart(p)
    /\ iFile'[p] = "f1"
    /\ Len(iChunks'[p]) \in {0, MaxChunks}

QueryStartFair(q) ==
    /\ QueryStart(q)
    /\ qQuestion'[q] = <<"a">>
    /\ qTopK'[q] = DefaultTopK

NextFair ==
    \/ \E p \in Ing :
          \/ IngestStartFair(p)
          \/ IngestEmbed(p)
          \/ IngestEmbedFail(p)
          \/ IngestCheck(p)
          \/ IngestCreate(p)
          \/ IngestAdd(p)
          \/ IngestWriteFail(p)
    \/ \E q \in Qry :
          \/ QueryStartFair(q)
          \/ QueryOpen(q)
          \/ QuerySearch(q)
          \/ QueryEmbedFail(q)
          \/ QueryGenerate(q)
          \/ QueryGenerateFail(q)

\* the engine under fair scheduling of the ingest requests
SpecFair ==
    Init /\ [][NextFair]_vars /\ \A p \in Ing : WF_vars(IngestStep(p))

\* ------------------------------------------------------------------------
\* SpecConfig: concurrent updates of the engine configuration
\* ------------------------------------------------------------------------
NextConfig ==
    \E u \in Upd :
        \/ HandleConfigUpdate(u)
        \/ ApiUpdateConfig(u)
        \/ update_config(u)
        \/ HandleConfigUpdateResume(u)

SpecConfig == Init /\ [][NextConfig]_vars

\* ------------------------------------------------------------------------
\* SpecUpload: documents ingested through POST /ingest, with queries
\* ------------------------------------------------------------------------
NextUpload ==
    \/ \E p \in Ing :
          \/ UploadStart(p)
          \/ UploadChunk(p)
          \/ UploadChunkFail(p)
          \/ IngestEmbed(p)
          \/ IngestEmbedFail(p)
          \/ IngestCheck(p)
          \/ IngestCreate(p)
          \/ IngestAdd(p)
          \/ IngestWriteFail(p)
    \/ \E q \in Qry :
          \/ QueryStart(q)
          \/ QueryOpen(q)
          \/ QuerySearch(q)
          \/ QueryEmbedFail(q)
          \/ QueryGenerate(q)
          \/ QueryGenerateFail(q)

SpecUpload == Init /\ [][NextUpload]_vars

\* ------------------------------------------------------------------------
\* SpecChat: the chat page sending questions to the engine
\* ------------------------------------------------------------------------
Sends == 1..MaxSend

\* the table left by an earlier engine.ingest(chunks, {"filename": f})
IngestedRows(chunks, f) ==
    [i \in 1..Len(chunks) |-> IngestRecord(chunks[i], f, 1)]

InitChat ==
    /\ ChunkIdle
    /\ \/ /\ tableExists = FALSE
          /\ rows = <<>>
       \/ /\ tableExists = TRUE
          /\ rows \in {IngestedRows(c, f) : c \in ChunkLists, f \in Files}
    /\ IngestIdle
    /\ QueryIdle(Sends)
    /\ ChatInit
    /\ ConfigInit

NextChat ==
    \/ \E q \in Sends :
          \/ HandleSend(q)
          \/ QueryOpen(q)
          \/ QuerySearch(q)
          \/ QueryEmbedFail(q)
          \/ QueryGenerate(q)
          \/ QueryGenerateFail(q)
    \/ HandleSendResume

SpecChat == InitChat /\ [][NextChat]_vars

\* ------------------------------------------------------------------------
\* SpecPage: the chat page of app/page.tsx with its session list
\* ------------------------------------------------------------------------
\* the page opened on a backend with no table yet, or with one ingested
\* chunk
InitPage ==
    /\ ChunkIdle
    /\ \/ /\ tableExists = FALSE
          /\ rows = <<>>
       \/ /\ tableExists = TRUE
          /\ rows = IngestedRows(ChunkList(1), "f1")
    /\ IngestIdle
    /\ QueryIdle(Sends)
    /\ ChatInit
    /\ ConfigInit

NextPage ==
    \/ \E q \in Sends :
          \/ HandleSendPage(q)
          \/ QueryOpen(q)
          \/ QuerySearch(q)
          \/ QueryEmbedFail(q)
          \/ QueryGenerate(q)
          \/ QueryGenerateFail(q)
    \/ HandleSendResume
    \/ createNewSession
    \/ \E id \in 1..(MaxNewChat + MaxSend) :
          \/ deleteSession(id)
          \/ SelectSession(id)

SpecPage == InitPage /\ [][NextPage]_vars

\* one request of the page: the steps of its query and the continuation of
\* handleSend
PageRequestStep ==
    \/ \E q \in Sends :
          \/ QueryOpen(q)
          \/ QuerySearch(q)
          \/ QueryEmbedFail(q)
          \/ QueryGenerate(q)
          \/ QueryGenerateFail(q)
    \/ HandleSendResume

\* the page's requests alone: the session list changes through New Chat and
\* handleSend only (deleting and selecting sessions touch neither isLoading
\* nor a request)
NextPageFair ==
    \/ \E q \in Sends :
          \/ HandleSendPage(q)
          \/ QueryOpen(q)
          \/ QuerySearch(q)
          \/ QueryEmbedFail(q)
          \/ QueryGenerate(q)
          \/ QueryGenerateFail(q)
    \/ HandleSendResume
    \/ createNewSession

\* every request is answered or fails, and the promise's continuation runs
SpecPageFair ==
    InitPage /\ [][NextPageFair]_vars /\ WF_vars(PageRequestStep)

\* ------------------------------------------------------------------------
\* The admin page: checkStatus, handleLogin, handleLogout and the API
\* client's token (setAuthToken / getAuthToken / clearAuthToken)
\* ------------------------------------------------------------------------
notAdminVars ==
    <<ckVars, storeVars, ingVars, qryVars, genCalls, chatVars, config, uPc,
      uUpdates, uBody, uResp, uOrigin, pgToast>>

\* getAuthToken(): the token in memory, else the one in localStorage
GetAuthToken(mem, stored) == IF mem # NoToken THEN mem ELSE stored

\* GET /admin/config accepts the request when its Authorization header
\* carries a token the backend issued
TokenAccepted(header) == header \in IssuedTokens

\* the backend or the network answers the request the page is waiting for
Respond ==
    /\ adPc \in {"health", "config", "login", "loginConfig"}
    /\ adResp = NoResp
    /\ adResp' \in
          CASE adPc = "health" -> {"ok", "fail"}
            [] adPc \in {"config", "loginConfig"} ->
                  IF TokenAccepted(adHeader) THEN {"ok", "fail"}
                  ELSE {"fail"}
            [] adPc = "login" ->
                  {"reject"} \cup
                  (IF adPassword = "right" /\ adminSetup
                   THEN IssuedTokens ELSE {"401"})
    /\ UNCHANGED <<notAdminVars, pgConfig, upVars, authToken, localToken,
                   isAuthenticated, needsSetup, adminIsLoading, adError,
                   adPc, adPassword, adHeader, adminSetup>>

\* checkStatus after the await of locoApi.health()
CheckStatusHealth ==
    /\ adPc = "health"
    /\ adResp # NoResp
    /\ adResp' = NoResp
    /\ IF adResp = "ok"
       THEN LET token == GetAuthToken(authToken, localToken)
            IN  /\ needsSetup' = ~adminSetup
                /\ authToken' = token
                /\ IF token # NoToken /\ adminSetup
                   THEN /\ adHeader' = token
                        /\ adPc' = "config"
                        /\ UNCHANGED adminIsLoading
                   ELSE /\ adPc' = "idle"
                        /\ adminIsLoading' = FALSE
                        /\ UNCHANGED adHeader
                /\ UNCHANGED adError
       ELSE /\ adError' = "Failed to connect to backend"
            /\ adminIsLoading' = FALSE
            /\ adPc' = "idle"
            /\ UNCHANGED <<needsSetup, authToken, adHeader>>
    /\ UNCHANGED <<notAdminVars, pgConfig, upVars, localToken,
                   isAuthenticated, adPassword, adminSetup>>

\* checkStatus after getConfig, with a catch that keeps the token
CheckStatusConfigKeepToken ==
    /\ adPc = "config"
    /\ adResp # NoResp
    /\ adResp' = NoResp
    /\ IF adResp = "ok"
       THEN /\ pgConfig' = config
            /\ isAuthenticated' = TRUE
       ELSE /\ isAuthenticated' = FALSE
            /\ UNCHANGED pgConfig
    /\ adminIsLoading' = FALSE
    /\ adPc' = "idle"
    /\ UNCHANGED <<notAdminVars, upVars, authToken, localToken, needsSetup,
                   adError, adPassword, adHeader, adminSetup>>

\* checkStatus after the await of locoApi.getConfig(): inner try / catch,
\* then finally
CheckStatusConfig ==
    /\ adPc = "config"
    /\ adResp # NoResp
    /\ adResp' = NoResp
    /\ IF adResp = "ok"
       THEN /\ pgConfig' = config
            /\ isAuthenticated' = TRUE
            /\ UNCHANGED <<authToken, localToken>>
       ELSE /\ authToken' = NoToken
            /\ localToken' = NoToken
            /\ isAuthenticated' = FALSE
            /\ UNCHANGED pgConfig
    /\ adminIsLoading' = FALSE
    /\ adPc' = "idle"
    /\ UNCHANGED <<notAdminVars, upVars, needsSetup, adError, adPassword,
                   adHeader, adminSetup>>

\* the login form submitted: handleLogin up to the await of locoApi.login
HandleLogin(password) ==
    /\ ~adminIsLoading
    /\ ~needsSetup
    /\ ~isAuthenticated
    /\ adPc = "idle"
    /\ adError' = "none"
    /\ adPassword' = password
    /\ adPc' = "login"
    /\ UNCHANGED <<notAdminVars, pgConfig, upVars, authToken, localToken,
                   isAuthenticated, needsSetup, adminIsLoading, adResp,
                   adHeader, adminSetup>>

\* handleLogin after the await of locoApi.login(password): login stores the
\* token it received (setAuthToken) and returns true, returns false on a
\* response that is not ok, and throws when the fetch rejects
HandleLoginResume ==
    /\ adPc = "login"
    /\ adResp # NoResp
    /\ adResp' = NoResp
    /\ IF adResp \in IssuedTokens
       THEN /\ authToken' = adResp
            /\ localToken' = adResp
            /\ isAuthenticated' = TRUE
            /\ adHeader' = adResp
            /\ adPc' = "loginConfig"
            /\ UNCHANGED adError
       ELSE /\ adError' = IF adResp = "reject" THEN "Login failed"
                          ELSE "Invalid password"
            /\ adPc' = "idle"
            /\ UNCHANGED <<authToken, localToken, isAuthenticated,
                           adHeader>>
    /\ UNCHANGED <<notAdminVars, pgConfig, upVars, needsSetup,
                   adminIsLoading, adPassword, adminSetup>>

\* handleLogin after the await of locoApi.getConfig()
HandleLoginConfig ==
    /\ adPc = "loginConfig"
    /\ adResp # NoResp
    /\ adResp' = NoResp
    /\ IF adResp = "ok"
       THEN /\ pgConfig' = config
            /\ adPassword' = "none"
            /\ UNCHANGED adError
       ELSE /\ adError' = "Login failed"
            /\ UNCHANGED <<pgConfig, adPassword>>
    /\ adPc' = "idle"
    /\ UNCHANGED <<notAdminVars, upVars, authToken, localToken,
                   isAuthenticated, needsSetup, adminIsLoading, adHeader,
                   adminSetup>>

\* handleLogout with a clearAuthToken that forgets the token in memory only
HandleLogoutMemoryOnly ==
    /\ isAuthenticated
    /\ authToken' = NoToken
    /\ isAuthenticated' = FALSE
    /\ pgConfig' = NoConfig
    /\ UNCHANGED <<notAdminVars, upVars, localToken, needsSetup,
                   adminIsLoading, adError, adPc, adPassword, adResp,
                   adHeader, adminSetup>>

\* the Logout button of the dashboard
HandleLogout ==
    /\ isAuthenticated
    /\ authToken' = NoToken
    /\ localToken' = NoToken
    /\ isAuthenticated' = FALSE
    /\ pgConfig' = NoConfig
    /\ UNCHANGED <<notAdminVars, upVars, needsSetup, adminIsLoading, adError,
                   adPc, adPassword, adResp, adHeader, adminSetup>>

InitAdmin ==
    /\ ChunkIdle
    /\ EngineInit
    /\ ChatInit
    /\ config = InitConfig
    /\ uPc = [u \in Upd |-> "idle"]
    /\ uUpdates = [u \in Upd |-> NoConfig]
    /\ uBody = [u \in Upd |-> NoConfig]
    /\ uResp = [u \in Upd |-> NoConfig]
    /\ uOrigin = [u \in Upd |-> "page"]
    /\ pgConfig = NoConfig
    /\ pgToast = "none"
    /\ AdminMount

NextAdmin ==
    \/ Respond
    \/ CheckStatusHealth
    \/ CheckStatusConfig
    \/ \E password \in Passwords : HandleLogin(password)
    \/ HandleLoginResume
    \/ HandleLoginConfig
    \/ HandleLogout

SpecAdmin == InitAdmin /\ [][NextAdmin]_vars

\* ------------------------------------------------------------------------
\* The admin page's upload card: handleUpload and its two timers
\* ------------------------------------------------------------------------
UploadFiles == {"none", "f1"}

\* the file input changed: handleUpload up to the await of locoApi.upload
HandleUpload(u) ==
    /\ isAuthenticated
    /\ upPc[u] = "idle"
    /\ \A o \in Uploads : o < u => upPc[o] # "idle"
    /\ \E file \in UploadFiles :
          /\ file # "none"
          /\ adError' = "none"
          /\ uploadProgress' = 10
          /\ upInterval' = [upInterval EXCEPT ![u] = TRUE]
          /\ upPc' = [upPc EXCEPT ![u] = "upload"]
    /\ UNCHANGED <<notAdminVars, pgConfig, authToken, localToken,
                   isAuthenticated, needsSetup, adminIsLoading, adPc,
                   adPassword, adResp, adHeader, adminSetup, upTimeout>>

\* the 200 ms interval of upload u fires:
\* setUploadProgress(prev => prev && prev < 90 ? prev + 10 : prev)
ProgressTick(u) ==
    /\ upInterval[u]
    /\ uploadProgress' =
          IF uploadProgress # NoProgress /\ uploadProgress < 90
          THEN uploadProgress + 10 ELSE uploadProgress
    /\ UNCHANGED <<notAdminVars, pgConfig, authVars, upPc, upInterval,
                   upTimeout>>

\* handleUpload after the await of locoApi.upload(file): on success the
\* interval is cleared and the bar set to 100; a throw goes to the catch
HandleUploadResume(u) ==
    /\ upPc[u] = "upload"
    /\ \E ok \in BOOLEAN :
          IF ok
          THEN /\ upInterval' = [upInterval EXCEPT ![u] = FALSE]
               /\ uploadProgress' = 100
               /\ upPc' = [upPc EXCEPT ![u] = "health"]
               /\ UNCHANGED adError
          ELSE /\ adError' = "Upload failed"
               /\ uploadProgress' = NoProgress
               /\ upPc' = [upPc EXCEPT ![u] = "failed"]
               /\ UNCHANGED upInterval
    /\ UNCHANGED <<notAdminVars, pgConfig, authToken, localToken,
                   isAuthenticated, needsSetup, adminIsLoading, adPc,
                   adPassword, adResp, adHeader, adminSetup, upTimeout>>

\* handleUpload after the await of locoApi.health(): the reset timeout is
\* set; a throw goes to the catch
HandleUploadHealth(u) ==
    /\ upPc[u] = "health"
    /\ \E ok \in BOOLEAN :
          IF ok
          THEN /\ upTimeout' = [upTimeout EXCEPT ![u] = TRUE]
               /\ upPc' = [upPc EXCEPT ![u] = "done"]
               /\ UNCHANGED <<adError, uploadProgress>>
          ELSE /\ adError' = "Health check failed"
               /\ uploadProgress' = NoProgress
               /\ upPc' = [upPc EXCEPT ![u] = "failed"]
               /\ UNCHANGED upTimeout
    /\ UNCHANGED <<notAdminVars, pgConfig, authToken, localToken,
                   isAuthenticated, needsSetup, adminIsLoading, adPc,
                   adPassword, adResp, adHeader, adminSetup, upInterval>>

\* the 1 s timeout of upload u fires: setUploadProgress(null)
ResetTimeout(u) ==
    /\ upTimeout[u]
    /\ uploadProgress' = NoProgress
    /\ upTimeout' = [upTimeout EXCEPT ![u] = FALSE]
    /\ UNCHANGED <<notAdminVars, pgConfig, authVars, upPc, upInterval>>

\* the dashboard of a logged-in administrator, nothing uploaded yet
InitAdminUpload ==
    /\ ChunkIdle
    /\ EngineInit
    /\ ChatInit
    /\ ConfigInit

NextAdminUpload ==
    \E u \in Uploads :
       \/ HandleUpload(u)
       \/ ProgressTick(u)
       \/ HandleUploadResume(u)
       \/ HandleUploadHealth(u)
       \/ ResetTimeout(u)

SpecAdminUpload == InitAdminUpload /\ [][NextAdminUpload]_vars

\* ------------------------------------------------------------------------
\* Claims about the chunker (checked under SpecChunk)
\* ------------------------------------------------------------------------
\* the sentences of each returned chunk, read back from the chunk strings
ChunkUnits(chunks) == [k \in 1..Len(chunks) |-> Split(chunks[k])]

\* index (in the sentence sequence) of the first sentence of chunk k
RECURSIVE ChunkStart(_, _)
ChunkStart(chunks, k) ==
    IF k = 1 THEN 1 ELSE ChunkStart(chunks, k - 1) + Len(Split(chunks[k - 1]))

\* the sentence indices i > 1 that start a chunk
Boundaries(chunks) == {ChunkStart(chunks, k) : k \in 2..Len(chunks)}

\* C2: for every non-empty text and every threshold the chunker returns a
\* non-empty sequence of chunks whose sentences, concatenated in order, are
\* exactly the sentence sequence of the text (nothing dropped, duplicated or
\* reordered).
C2_ChunksPartitionSentences ==
    (ckPc = "done" /\ ckText # <<>>) =>
        /\ Len(ckChunks) >= 1
        /\ Flatten(ChunkUnits(ckChunks)) = Split(ckText)

\* three sentences split into a chunk of two and a chunk of one
C2_Witness ==
    /\ ckPc = "done"
    /\ Len(Split(ckText)) = 3
    /\ Len(ckChunks) = 2
    /\ Len(Split(ckChunks[1])) = 2

RowsOf(p) == SelectSeq(rows, LAMBDA r : r.ing = p)

\* what request p was asked to store
DocumentOf(p) ==
    [i \in 1..Len(iChunks[p]) |-> IngestRecord(iChunks[p][i], iFile[p], p)]

\* C1: ingestion is atomic per document: once ingest has returned, a failed
\* ingest (embedding or store write failed) has left no chunk of its
\* document in the table, and a successful one has left all of them.
C1_IngestAtomic ==
    \A p \in Ing :
        /\ iPc[p] = "failed" => RowsOf(p) = <<>>
        /\ iPc[p] = "done" => RowsOf(p) = DocumentOf(p)

\* an ingest failed at its second embedding call while the table holds the
\* chunks of another document
C1_Witness ==
    \E p \in Ing :
        /\ iPc[p] = "failed"
        /\ Len(iChunks[p]) = 2
        /\ Len(iData[p]) = 1
        /\ rows # <<>>

\* the answer synthesize is specified to give on an empty hit list
NoInfoAnswer == "no relevant information"

\* C4: a query whose hit list is empty returns the fixed "no relevant
\* information" answer with no references, and the generation service is
\* not invoked during that query.
C4_EmptyHitsNoGeneration ==
    \A q \in DOMAIN qPc :
        (qPc[q] \in {"generate", "done", "error"} /\ qResults[q] = <<>>) =>
            /\ ~qGen[q]
            /\ qPc[q] = "done" =>
                  /\ qResponse[q].answer = NoInfoAnswer
                  /\ qResponse[q].references = <<>>

\* C6: a query against a store into which nothing was ever ingested returns
\* an empty result, never an error.
C6_EmptyStoreNoError ==
    \A q \in DOMAIN qPc : ~(qPc[q] = "error" /\ ~tableExists)

\* C7: retrieve returns at most top_k hits, each hit is a chunk present in
\* the store, and no chunk appears in two hits.
C7_HitsBoundedDistinctInStore ==
    \A q \in DOMAIN qPc :
        /\ Len(qResults[q]) <= qTopK[q]
        /\ \A k \in 1..Len(qResults[q]) :
              /\ qResults[q][k].id \in 1..Len(rows)
              /\ rows[qResults[q][k].id].text = qResults[q][k].text
              /\ rows[qResults[q][k].id].source = qResults[q][k].source
        /\ \A k, l \in 1..Len(qResults[q]) :
              k # l => qResults[q][k].id # qResults[q][l].id

\* top_k cut the result list short of the table
C7_Witness ==
    \E q \in DOMAIN qPc :
        /\ qPc[q] = "done"
        /\ Len(qResults[q]) = qTopK[q]
        /\ Len(rows) > qTopK[q]

\* the score a hit is reported with
ScoreOf(r) == Reference(r).score

\* C8: the hits are ordered by score descending (ties by vector rank, which
\* is the list position, then by chunk id).
C8_HitsOrderedByScoreDescending ==
    \A q \in DOMAIN qPc :
        \A k, l \in 1..Len(qResults[q]) :
            k < l =>
                \/ ScoreOf(qResults[q][k]) > ScoreOf(qResults[q][l])
                \/ /\ ScoreOf(qResults[q][k]) = ScoreOf(qResults[q][l])
                   /\ qResults[q][k].id < qResults[q][l].id

\* C10: in a successful query with hits, the references correspond in order
\* to the retained hits, and the retained hits are a prefix of the ranked
\* hits: reference k is built from hit k.
C10_ReferencesFollowHits ==
    \A q \in DOMAIN qPc :
        (qPc[q] = "done" /\ qResults[q] # <<>>) =>
            /\ qResponse[q].references # <<>>
            /\ Len(qResponse[q].references) <= Len(qResults[q])
            /\ \A k \in 1..Len(qResponse[q].references) :
                  /\ qResponse[q].references[k].source = qResults[q][k].source
                  /\ qResponse[q].references[k].score
                        = qResults[q][k]._distance
                  /\ qResponse[q].references[k].snippet
                        = SubSeq(qResults[q][k].text, 1,
                                 Min(150, Len(qResults[q][k].text)))

\* a successful query with three hits from two files
C10_Witness ==
    \E q \in DOMAIN qPc :
        /\ qPc[q] = "done"
        /\ Len(qResponse[q].references) = 3
        /\ qResponse[q].references[1].source # qResponse[q].references[2].source
        /\ qResponse[q].references[1].score < qResponse[q].references[3].score

\* ------------------------------------------------------------------------
\* Claims about the chat page (checked under SpecChat)
\* ------------------------------------------------------------------------
\* C5: when the generation service fails during the chat page's query, the
\* query returns no answer and no references, and handleSend appends no
\* assistant message for the question: it only reports the error.
C5_GenerationFailureSurfaced ==
    [][(/\ chPending.q # NoRequest
        /\ qPc[chPending.q] = "error"
        /\ qGen[chPending.q]
        /\ chPending'.q = NoRequest)
       => (/\ qResponse[chPending.q] = NoResponse
           /\ sessions' = sessions
           /\ toast' = "error"
           /\ isLoading' = FALSE)]_vars

\* handleSend has finished for a question whose generation call failed: the
\* session holds the user's message only
C5_Witness ==
    /\ chPending.q = NoRequest
    /\ toast = "error"
    /\ \E q \in DOMAIN qPc :
          qOrigin[q] = "chat" /\ qPc[q] = "error" /\ qGen[q]
    /\ Len(sessions) = 1
    /\ Len(sessions[1].messages) = 1
    /\ sessions[1].messages[1].role = "user"

\* ------------------------------------------------------------------------
\* Claims about input validation (checked under SpecUpload)
\* ------------------------------------------------------------------------
\* C11: an ingest of empty content fails with an input-validation error,
\* writes zero chunks and leaves the store as it was: it never gets as far as
\* engine.ingest, never ends successfully and no row of it is in the table.
C11_EmptyIngestRejected ==
    \A p \in Ing :
        (iPc[p] # "idle" /\ iText[p] = <<>>) =>
            /\ iPc[p] \in {"chunk", "failed"}
            /\ iChunks[p] = <<>>
            /\ RowsOf(p) = <<>>

\* C12: input errors never reach collaborators: a query whose question is
\* empty or whitespace-only makes no call to the store, the embedding
\* service or the generation service (it gets no further than the call of
\* query), an ingest of an empty document makes no call to the embedding
\* service or the store, and the chat page never sends a blank question.
C12_InputErrorsReachNoCollaborator ==
    /\ \A q \in DOMAIN qPc :
          (qPc[q] # "idle" /\ Trim(qQuestion[q]) = <<>>) =>
              /\ qPc[q] = "open"
              /\ ~qGen[q]
              /\ qOrigin[q] # "chat"
    /\ \A p \in Ing :
          (iPc[p] # "idle" /\ iText[p] = <<>>) =>
              /\ iPc[p] = "chunk"
              /\ iData[p] = <<>>

\* ------------------------------------------------------------------------
\* Claims about concurrent ingestions and queries (checked under Spec)
\* ------------------------------------------------------------------------
\* C13: within one query retrieval completes before synthesis starts, and
\* the response is built only from the hits retrieval returned: the
\* generation service is called only once the hits are there, an ingestion
\* that commits after the retrieval leaves the hits as they were, the
\* references of the response are those of the hits, and a response once
\* built does not change.
C13_SynthesisReadsRetrievalSnapshot ==
    [][\A q \in DOMAIN qPc :
          /\ (qGen'[q] /\ ~qGen[q]) => qPc[q] = "generate"
          /\ qPc[q] \in {"generate", "done"} => qResults'[q] = qResults[q]
          /\ (qPc'[q] = "done" /\ qPc[q] # "done") =>
                 qResponse'[q].references = References(qResults[q])
          /\ qPc[q] = "done" => qResponse'[q] = qResponse[q]]_vars

\* a finished query whose hits are fewer than the table now allows: an
\* ingestion committed after its retrieval, and the references are still
\* those of the hits
C13_Witness ==
    \E q \in DOMAIN qPc :
        /\ qPc[q] = "done"
        /\ qResults[q] # <<>>
        /\ Len(qResults[q]) < Min(qTopK[q], Len(rows))
        /\ Len(qResponse[q].references) = Len(qResults[q])

\* C14: whenever a query is about to read the table, the table holds for
\* each ingest request either none of its document's chunks or all of them,
\* in order, each with its embedding, text and source label; no query
\* observes a partially written batch or a partially populated chunk.
C14_QuerySeesWholeBatches ==
    \A q \in DOMAIN qPc :
        qPc[q] = "search" =>
            \A p \in Ing :
                \/ RowsOf(p) = <<>>
                \/ /\ RowsOf(p) = DocumentOf(p)
                   /\ \A i \in 1..Len(RowsOf(p)) :
                         /\ RowsOf(p)[i].vector = EmbedOf(iChunks[p][i])
                         /\ RowsOf(p)[i].text = iChunks[p][i]
                         /\ RowsOf(p)[i].source = iFile[p]

\* a query reads the table while one two-chunk document is committed and
\* another is embedded and about to be added
C14_Witness ==
    \E q \in DOMAIN qPc, p, o \in Ing :
        /\ qPc[q] = "search"
        /\ iPc[p] = "add"
        /\ Len(iData[p]) = 2
        /\ iPc[o] = "done"
        /\ Len(RowsOf(o)) = 2

\* C15: retrieve and query never modify the store: no step of a query,
\* whether the query goes on to succeed or to fail, changes the table, its
\* rows or any field of a row.
C15_QueryLeavesStoreUnchanged ==
    [][(qPc' # qPc) => (rows' = rows /\ tableExists' = tableExists)]_vars

\* a query that retrieved two hits and then failed at the generation call,
\* with the table still holding its two chunks
C15_Witness ==
    \E q \in DOMAIN qPc :
        /\ qPc[q] = "error"
        /\ qGen[q]
        /\ Len(qResults[q]) = 2
        /\ Len(rows) = 2

\* ------------------------------------------------------------------------
\* Liveness of ingestion (checked under SpecFair)
\* ------------------------------------------------------------------------
\* C16: concurrent ingestions never deadlock: under fair scheduling and
\* responsive collaborators every started ingestion eventually returns, with
\* its chunks written or with an error, whatever the interleaving with other
\* ingestions and queries.
C16_IngestionEventuallyReturns ==
    \A p \in Ing : (iPc[p] # "idle") ~> (iPc[p] \in {"done", "failed"})

\* two ingestions ran into each other creating the table: one created it,
\* the other's create_table raised, and both have returned
C16_Witness ==
    \E p, o \in Ing :
        /\ p # o
        /\ iPc[p] = "done"
        /\ iPc[o] = "failed"
        /\ iChunks[o] # <<>>
        /\ Len(iData[o]) = Len(iChunks[o])
        /\ rows = iData[p]

\* ------------------------------------------------------------------------
\* Claims about the engine configuration (checked under SpecConfig)
\* ------------------------------------------------------------------------
\* C17: an update_config whose body has any field outside its range
\* (temperature 0.0-2.0, top_k 1-10, chunk_similarity_threshold 0.0-1.0) is
\* rejected and leaves the configuration unchanged, with no value clamped
\* and no valid field of the same body applied; hence every field of the
\* configuration stays within its range.
C17_OutOfRangeUpdateRejected ==
    [][/\ config'.temperature \in 0..20
       /\ config'.top_k \in 1..10
       /\ config'.chunk_similarity_threshold \in 0..100
       /\ \A u \in Upd :
             (/\ uPc[u] = "sent"
              /\ uPc'[u] # "sent"
              /\ \/ ("temperature" \in DOMAIN uBody[u]
                        /\ uBody[u].temperature \notin 0..20)
                 \/ ("top_k" \in DOMAIN uBody[u]
                        /\ uBody[u].top_k \notin 1..10)
                 \/ ("chunk_similarity_threshold" \in DOMAIN uBody[u]
                        /\ uBody[u].chunk_similarity_threshold \notin 0..100))
             => (uPc'[u] = "rejected" /\ config' = config)]_vars

\* a body with a valid temperature and an out-of-range top_k was rejected
\* whole, after an accepted update had changed the configuration
C17_Witness ==
    \E u \in Upd :
        /\ uPc[u] = "rejected"
        /\ DOMAIN uBody[u] = {"temperature", "top_k"}
        /\ uBody[u].temperature = 9
        /\ uBody[u].top_k = 11
        /\ config # InitConfig
        /\ config.temperature # 9

\* C18: concurrent update_config calls are last-writer-wins per field: the
\* commit of a call changes no field the call does not set, and once all
\* calls have completed each field holds its initial value or the value
\* written by an accepted call that set that field.
C18_LastWriterWinsPerField ==
    [][/\ \A u \in Upd :
             (uPc[u] = "sent" /\ uPc'[u] # "sent") =>
                 \A f \in ConfigFields \ DOMAIN uUpdates[u] :
                     config'[f] = config[f]
       /\ (\A u \in Upd : uPc'[u] # "sent") =>
             \A f \in ConfigFields :
                 \/ config'[f] = InitConfig[f]
                 \/ \E u \in Upd :
                       /\ uPc'[u] \in {"ok", "shown"}
                       /\ f \in DOMAIN uUpdates'[u]
                       /\ uUpdates'[u][f] = config'[f]]_vars

\* the temperature slider and the top_k slider were moved one after the
\* other before either response was handled; both updates are committed
C18_Witness ==
    /\ \A u \in Upd : uPc[u] = "ok" /\ uOrigin[u] = "page"
    /\ \E u, v \in Upd :
          /\ DOMAIN uUpdates[u] = {"temperature"}
          /\ DOMAIN uUpdates[v] = {"top_k"}
    /\ config.temperature = 8
    /\ config.top_k = 5
    /\ pgConfig = InitConfig

\* ------------------------------------------------------------------------
\* The store is append-only (checked under Spec)
\* ------------------------------------------------------------------------
\* C19: ingestion only ever appends: no step of an ingest or a query removes
\* a row of the table or changes a field of one, and when a document that
\* was already ingested is ingested again, the table holds the chunks of
\* both ingestions.
C19_IngestionOnlyAppends ==
    [][/\ Len(rows') >= Len(rows)
       /\ \A i \in 1..Len(rows) : rows'[i] = rows[i]
       /\ \A p, o \in Ing :
             (/\ p # o
              /\ iPc'[p] = "done" /\ iPc'[o] = "done"
              /\ iFile'[p] = iFile'[o] /\ iChunks'[p] = iChunks'[o])
             => /\ RowsOf(p)' = DocumentOf(p)'
                /\ RowsOf(o)' = DocumentOf(o)'
                /\ Len(rows') >= 2 * Len(iChunks'[p])]_vars

\* the same two-chunk document ingested twice: four rows
C19_Witness ==
    \E p, o \in Ing :
        /\ p # o
        /\ iPc[p] = "done" /\ iPc[o] = "done"
        /\ iFile[p] = iFile[o]
        /\ iChunks[p] = iChunks[o]
        /\ Len(iChunks[p]) = 2
        /\ Len(rows) = 4

NegativeSim(a, b) == Dot(a, b) < 0

\* cosine similarity of a and b is exactly 1: both non-zero and parallel
UnitSim(a, b) ==
    /\ Dot(a, a) # 0
    /\ Dot(b, b) # 0
    /\ Dot(a, b) > 0
    /\ Dot(a, b) * Dot(a, b) = Dot(a, a) * Dot(b, b)

SessionsWithId(ss, id) == {ss[k] : k \in {j \in 1..Len(ss) : ss[j].id = id}}

\* the messages of session s end with the user's message msg
EndsWithUserMessage(s, msg) ==
    /\ s.messages # <<>>
    /\ s.messages[Len(s.messages)].role = "user"
    /\ s.messages[Len(s.messages)].content = msg

\* C23: a non-empty message sent while no session is active creates a new
\* session, makes it active and appends the user's message to it (the
\* assistant's answer follows later): the message is never dropped.
C23_SendWithoutSessionKeepsMessage ==
    [][(/\ activeSessionId = NoSession
        /\ chPending.q = NoRequest
        /\ chPending'.q # NoRequest)
       => (/\ activeSessionId' # NoSession
           /\ \E s \in SessionsWithId(sessions', activeSessionId') :
                 EndsWithUserMessage(s, qQuestion'[chPending'.q]))]_vars
\* C28: every assistant message directly follows the user message it
\* answers, in the same session, also when another session became active
\* while the answer was awaited; no session starts with an assistant message
\* or holds two assistant messages in a row.
C28_AnswerFollowsItsQuestion ==
    /\ [](\A k \in 1..Len(sessions) :
            \A i \in 1..Len(sessions[k].messages) :
               sessions[k].messages[i].role = "assistant" =>
                  /\ i > 1
                  /\ sessions[k].messages[i - 1].role = "user")
    /\ [][\A id \in SessionIds(sessions) :
            \A s \in SessionsWithId(sessions, id) :
               \A t \in SessionsWithId(sessions', id) :
                  (/\ Len(t.messages) > Len(s.messages)
                   /\ t.messages[Len(t.messages)].role = "assistant")
                  => (/\ chPending.q # NoRequest
                      /\ id = chPending.session
                      /\ EndsWithUserMessage(s, qQuestion[chPending.q])
                      /\ t.messages = Append(s.messages,
                            [role |-> "assistant",
                             content |-> qResponse[chPending.q].answer,
                             references |->
                                 qResponse[chPending.q].references]))]_vars

\* an answered question in a session that is not the active one, both
\* sessions still in the list
C28_Witness ==
    /\ chPending.q = NoRequest
    /\ toast = "success"
    /\ Len(sessions) = 2
    /\ nextId = 3
    /\ \E k \in 1..2 :
          /\ sessions[k].id # activeSessionId
          /\ Len(sessions[k].messages) = 2
          /\ sessions[k].messages[1].role = "user"
          /\ sessions[k].messages[2].role = "assistant"

\* C29: activeSessionId is null or the id of a session in the list; deleting
\* the active session makes another session of the list active, or null
\* when none is left.
C29_ActiveSessionExists ==
    /\ [](activeSessionId = NoSession
              \/ activeSessionId \in SessionIds(sessions))
    /\ [][(/\ activeSessionId # NoSession
            /\ activeSessionId \notin SessionIds(sessions'))
           => IF sessions' = <<>>
              THEN activeSessionId' = NoSession
              ELSE /\ activeSessionId' \in SessionIds(sessions')
                   /\ activeSessionId' # activeSessionId]_vars

\* the active one of two sessions was deleted and the other one is active
C29_Witness ==
    /\ nextId = 3
    /\ Len(sessions) = 1
    /\ activeSessionId = sessions[1].id
    /\ toast = "success"
    /\ \A q \in DOMAIN qPc : qPc[q] = "idle"

\* ------------------------------------------------------------------------
\* Claims about the page's requests (checked under SpecPageFair)
\* ------------------------------------------------------------------------
\* the requests the page has sent and whose continuation has not run
InFlight ==
    {q \in DOMAIN qPc :
        qPc[q] \in {"open", "search", "generate"} \/ chPending.q = q}

\* C27: at most one query is in flight per chat page; handleSend does
\* nothing while isLoading is true (no request leaves, no user message is
\* appended); every sent request eventually resets isLoading to false.
C27_OneRequestAtATime ==
    /\ [](Cardinality(InFlight) <= 1)
    /\ [][isLoading =>
            /\ \A q \in DOMAIN qPc : qPc[q] = "idle" => qPc'[q] = "idle"
            /\ \A id \in SessionIds(sessions) :
                  \A s \in SessionsWithId(sessions, id) :
                     \A t \in SessionsWithId(sessions', id) :
                        Len(t.messages) > Len(s.messages) =>
                           t.messages[Len(t.messages)].role = "assistant"]_vars
    /\ (isLoading ~> ~isLoading)

\* two requests sent one after the other, one answered and one failed, and
\* isLoading is false again
C27_Witness ==
    /\ ~isLoading
    /\ chPending.q = NoRequest
    /\ \E q1, q2 \in DOMAIN qPc :
          /\ qOrigin[q1] = "chat" /\ qPc[q1] = "done"
          /\ qOrigin[q2] = "chat" /\ qPc[q2] = "error"

\* ------------------------------------------------------------------------
\* Claims about the admin page's authentication (checked under SpecAdmin)
\* ------------------------------------------------------------------------
\* C24: on load with a stored token and a set-up account the page asks for
\* the configuration with that token and becomes authenticated exactly when
\* the fetch succeeds; when it fails the token is cleared from memory and
\* from localStorage and the page stays unauthenticated.
C24_LoadAuthenticatesIffConfigFetched ==
    /\ [][(/\ adPc = "health"
            /\ adResp = "ok"
            /\ localToken # NoToken
            /\ adminSetup
            /\ adPc' # "health")
           => (/\ adPc' = "config"
               /\ adHeader' = localToken
               /\ ~isAuthenticated')]_vars
    /\ [][(adPc = "config" /\ adPc' # "config")
           => (/\ isAuthenticated' <=> (adResp = "ok")
               /\ adResp = "ok" => pgConfig' = config
               /\ adResp # "ok" =>
                     /\ authToken' = NoToken
                     /\ localToken' = NoToken
                     /\ GetAuthToken(authToken', localToken') = NoToken)]_vars

\* the page was loaded with an expired token: the fetch failed, the token
\* is gone and the login form is shown
C24_Witness ==
    /\ adPc = "idle"
    /\ adHeader = "old"
    /\ ~adminIsLoading
    /\ ~isAuthenticated
    /\ authToken = NoToken
    /\ localToken = NoToken
    /\ adError = "none"

\* C25: after clearAuthToken, getAuthToken returns null until a later login
\* succeeds, and a request of fetchWithAuth carries the token getAuthToken
\* returns; a failed login leaves the stored token unchanged; a successful
\* login makes getAuthToken return exactly the token received.
C25_TokenFollowsLoginAndClear ==
    /\ [][((isAuthenticated /\ ~isAuthenticated')
              \/ (adPc = "config" /\ adResp # "ok" /\ adPc' = "idle"))
           => GetAuthToken(authToken', localToken') = NoToken]_vars
    /\ [][(/\ GetAuthToken(authToken, localToken) = NoToken
            /\ GetAuthToken(authToken', localToken') # NoToken)
           => (/\ adPc = "login"
               /\ adResp \in IssuedTokens)]_vars
    /\ [][(adPc = "login" /\ adPc' # "login")
           => IF adResp \in IssuedTokens
              THEN /\ GetAuthToken(authToken', localToken') = adResp
                   /\ localToken' = adResp
              ELSE /\ authToken' = authToken
                   /\ localToken' = localToken]_vars
    /\ [][(adPc' \in {"config", "loginConfig"} /\ adPc' # adPc)
           => adHeader' = GetAuthToken(authToken', localToken')]_vars

\* logged out, then logged in again with the other token: getAuthToken
\* returns it and the configuration is requested with it
C25_Witness ==
    /\ adPc = "loginConfig"
    /\ authToken = "t2"
    /\ localToken = "t2"
    /\ adHeader = "t2"
    /\ pgConfig = NoConfig
    /\ isAuthenticated

\* C26: whenever the page is authenticated after handleLogin or checkStatus
\* has completed, config is non-null; a login whose configuration fetch
\* fails ('Login failed') does not leave the page authenticated.
C26_AuthenticatedHasConfig ==
    (isAuthenticated /\ adPc = "idle") => pgConfig # NoConfig

\* ------------------------------------------------------------------------
\* Claims about the upload progress bar (checked under SpecAdminUpload)
\* ------------------------------------------------------------------------
\* C30: the progress indicator is non-null for as long as an upload is in
\* flight, and is null again once the last upload has finished and its
\* reset timeout has fired, also when a second upload starts while the
\* interval or the reset timeout of an earlier upload is pending.
C30_ProgressShownWhileUploading ==
    /\ ((\E u \in Uploads : upPc[u] = "upload") =>
           uploadProgress # NoProgress)
    /\ (((\A u \in Uploads : upPc[u] \in {"idle", "done", "failed"})
           /\ (\A v \in Uploads : ~upTimeout[v])) =>
           uploadProgress = NoProgress)

====
